---- MODULE Spec2Model ----
(***************************************************************************)
(* Table location in scraper.py: _norm, _title_matches with                *)
(* TARGET_TITLE_REGEX, and the two passes of extract_target_table.         *)
(*                                                                         *)
(* A str is a sequence of one-character strings, a list is a sequence, and *)
(* Python's index 0 is index 1 here.  A value that may be None (a page's   *)
(* text, its tables, a table, a row, a cell) is a record: NULL for None,   *)
(* Some(v) for the value v.                                                *)
(***************************************************************************)
EXTENDS Integers, Sequences, FiniteSets, TLC

VARIABLES
    pages,            \* pdf.pages: what extract_text / extract_tables give per page
    pc,               \* position in extract_target_table
    page_number,      \* enumerate(pdf.pages, start=1)
    table_index,      \* position of `for table in tables` (1-based)
    title_hit_pages,  \* the list built in Pass 1
    result,           \* the returned table, with the page the print names
    failure,          \* which of the two RuntimeErrors was raised
    visited           \* history: the pages and tables looked at, in the order looked at

vars == <<pages, pc, page_number, table_index, title_hit_pages, result, failure, visited>>

(***************************************************************************)
(* Characters and Python values                                            *)
(***************************************************************************)

\* Python's None
NULL == [none |-> TRUE, val |-> <<>>]

\* a value that is not None
Some(v) == [none |-> FALSE, val |-> v]

\* the characters \s matches and str.strip() removes
Whitespace == {" ", "\t", "\n", "\r", "\f"}

\* the characters \d matches
Digits == {"0", "1", "2", "3", "4", "5", "6", "7", "8", "9"}

UpperCase == <<"A", "B", "C", "D", "E", "F", "G", "H", "I", "J", "K", "L", "M", "N", "O", "P", "Q", "R", "S", "T", "U", "V", "W", "X", "Y", "Z">>

LowerCase == <<"a", "b", "c", "d", "e", "f", "g", "h", "i", "j", "k", "l", "m", "n", "o", "p", "q", "r", "s", "t", "u", "v", "w", "x", "y", "z">>

\* [A-Z] under re.IGNORECASE
Letters == {UpperCase[k] : k \in 1..Len(UpperCase)} \cup {LowerCase[k] : k \in 1..Len(LowerCase)}

\* str.lower() on one character
LowerChar(c) ==
    IF \E k \in 1..Len(UpperCase) : UpperCase[k] = c
    THEN LowerCase[CHOOSE k \in 1..Len(UpperCase) : UpperCase[k] = c]
    ELSE c

\* str.lower()
Lower(s) == [k \in 1..Len(s) |-> LowerChar(s[k])]

\* bool(x) of a str, a list or None
Truthy(x) == ~x.none /\ x.val # <<>>

\* `x or ""`, `x or []`
OrEmpty(x) == IF Truthy(x) THEN x ELSE Some(<<>>)

(***************************************************************************)
(* _norm                                                                   *)
(***************************************************************************)

\* re.sub(r"\s+", " ", s): every maximal run of whitespace becomes one space
RECURSIVE CollapseWhitespace(_)
CollapseWhitespace(s) ==
    IF s = <<>> THEN <<>>
    ELSE IF Head(s) \in Whitespace
         THEN IF Len(s) > 1 /\ s[2] \in Whitespace
              THEN CollapseWhitespace(Tail(s))
              ELSE <<" ">> \o CollapseWhitespace(Tail(s))
         ELSE <<Head(s)>> \o CollapseWhitespace(Tail(s))

\* str.strip()
Strip(s) ==
    LET Solid == {k \in 1..Len(s) : s[k] \notin Whitespace}
    IN  IF Solid = {} THEN <<>>
        ELSE LET first == CHOOSE k \in Solid : \A m \in Solid : k <= m
                 last  == CHOOSE k \in Solid : \A m \in Solid : m <= k
             IN  SubSeq(s, first, last)

\* a slip of _norm: strip only, the runs inside the text kept
Norm_NoCollapse(s) ==
    IF s.none THEN <<>> ELSE Lower(Strip(s.val))

_norm(s) ==
    IF s.none THEN <<>> ELSE Lower(Strip(CollapseWhitespace(s.val)))

EXPECTED_COLUMNS == {
    <<"f", "o", "o", "d", "s", " ", "t", "r", "a", "c", "k", "e", "d">>,
    <<"q", "u", "a", "n", "t", "i", "t", "y", " ", "t", "r", "a", "c", "k", "e", "d">>,
    <<"j", "o", "b", "u", "r", "g">>,
    <<"d", "u", "r", "b", "a", "n">>,
    <<"c", "a", "p", "e", " ", "t", "o", "w", "n">> }

(***************************************************************************)
(* TARGET_TITLE_REGEX and _title_matches                                   *)
(*                                                                         *)
(* A regex fragment maps a set of positions in s (where the match may      *)
(* stand before the fragment) to the set of positions after it.  The       *)
(* pattern matches from P iff the last fragment's set is not empty, which  *)
(* is what the backtracking matcher decides.                               *)
(***************************************************************************)

\* c* for a character class
Star(s, P, class) ==
    {q \in 1..(Len(s) + 1) : \E p \in P : p <= q /\ \A k \in p..(q - 1) : s[k] \in class}

\* c+ for a character class
Plus(s, P, class) ==
    {q \in 1..(Len(s) + 1) : \E p \in P : p < q /\ \A k \in p..(q - 1) : s[k] \in class}

\* c{n} for a character class
Times(s, P, class, n) ==
    {q \in 1..(Len(s) + 1) : (q - n) \in P /\ \A k \in (q - n)..(q - 1) : s[k] \in class}

\* a literal (given in lower case) under re.IGNORECASE
Lit(s, P, w) ==
    {p + Len(w) : p \in {x \in P : x + Len(w) - 1 <= Len(s)
                                   /\ \A k \in 1..Len(w) : LowerChar(s[x + k - 1]) = w[k]}}

\* (?:\d+\.\s*)?
SectionNumber(s, P) == P \cup Star(s, Lit(s, Plus(s, P, Digits), <<".">>), Whitespace)

\* (?:[A-Z]+\s+\d{4}\s+)?
MonthYear(s, P) ==
    P \cup Plus(s, Times(s, Plus(s, Plus(s, P, Letters), Whitespace), Digits, 4), Whitespace)

\* Household\s+Food\s+Basket\s*:
TitleHead(s, P) ==
    LET a == Plus(s, Lit(s, P, <<"h", "o", "u", "s", "e", "h", "o", "l", "d">>), Whitespace)
        b == Plus(s, Lit(s, a, <<"f", "o", "o", "d">>), Whitespace)
        c == Star(s, Lit(s, b, <<"b", "a", "s", "k", "e", "t">>), Whitespace)
    IN  Lit(s, c, <<":">>)

\* \s*Per\s+area\s*,\s*compared
TitleTail(s, P) ==
    LET a == Plus(s, Lit(s, Star(s, P, Whitespace), <<"p", "e", "r">>), Whitespace)
        b == Star(s, Lit(s, a, <<"a", "r", "e", "a">>), Whitespace)
        c == Star(s, Lit(s, b, <<",">>), Whitespace)
    IN  Lit(s, c, <<"c", "o", "m", "p", "a", "r", "e", "d">>)

\* the whole pattern, tried from the positions P
TARGET_TITLE_REGEX(s, P) == TitleTail(s, TitleHead(s, MonthYear(s, SectionNumber(s, P)))) # {}

\* a slip: .match() for .search(), the pattern tried at the start of the text only
Regex_match(s) == TARGET_TITLE_REGEX(s.val, {1})

\* TARGET_TITLE_REGEX.search(s): the pattern tried at every position
Regex_search(s) == TARGET_TITLE_REGEX(s.val, 1..(Len(s.val) + 1))

\* re raises TypeError when given None for a string
Regex_raises(s) == s.none

_title_matches(page_text) == Regex_search(OrEmpty(page_text))

\* _title_matches raises what the search raises; the `or ""` is what prevents it
TitleRaises(page_text) == Regex_raises(OrEmpty(page_text))

(***************************************************************************)
(* The header test of extract_target_table (the same lines in both passes) *)
(***************************************************************************)

NonEmpty(c) == c # <<>>

\* [_norm(cell) for cell in table[0] if _norm(cell)]
HeaderNorm(row) == SelectSeq([k \in 1..Len(row.val) |-> _norm(row.val[k])], NonEmpty)

\* a slip of the guard: `if not table: continue`, the test of table[0] left out
SkipTable_NoRowTest(table) == ~Truthy(table)

\* if not table or not table[0]: continue
SkipTable(table) == ~Truthy(table) \/ ~Truthy(table.val[1])

\* what Python raises on when the guard lets the table through: table[0] of None or of
\* an empty list, and `for cell in None`
HeaderRaises(table) == table.none \/ table.val = <<>> \/ table.val[1].none

\* a slip of the test: one expected column is enough
HeaderMatches_Any(table) ==
    LET header_norm == HeaderNorm(table.val[1])
    IN  EXPECTED_COLUMNS \cap {header_norm[k] : k \in 1..Len(header_norm)} # {}

\* EXPECTED_COLUMNS.issubset(set(header_norm))
HeaderMatches(table) ==
    LET header_norm == HeaderNorm(table.val[1])
    IN  EXPECTED_COLUMNS \subseteq {header_norm[k] : k \in 1..Len(header_norm)}

(***************************************************************************)
(* extract_target_table                                                    *)
(***************************************************************************)

NoResult == [table |-> NULL, page |-> 0, index |-> 0]

\* a slip of line 122: the page recorded only after its tables were seen to exist
RecordHit_IfTables(hits, n, tables) == IF Truthy(tables) THEN Append(hits, n) ELSE hits

\* title_hit_pages.append(page_number), before the tables are looked at
RecordHit(hits, n, tables) == Append(hits, n)

\* a slip of line 126: `break` for `continue`
NoTables_Break(n, len) == len + 1

\* `continue` of line 126: on to the next page
NoTables_Continue(n, len) == n + 1

\* a slip of lines 149-155: the two messages exchanged
Failure_Swapped(hits) ==
    IF hits # <<>> THEN "NoTitleNoTable" ELSE "TitleFoundNoMatchingTable"

\* the RuntimeError raised after both passes
Failure(hits) ==
    IF hits # <<>> THEN "TitleFoundNoMatchingTable" ELSE "NoTitleNoTable"

\* a slip of the inner loop: a table that is not the one ends the page
NextTable_Break(j, len) == len + 1

\* `for table in tables` goes on to the next table
NextTable(j, len) == j + 1

\* a slip of Pass 2: the title test of Pass 1 copied into it
Pass2Tables_TitleOnly(page) ==
    IF _title_matches(OrEmpty(page.text)) THEN OrEmpty(page.tables) ELSE Some(<<>>)

\* line 139: Pass 2 takes the tables of every page
Pass2Tables(page) == OrEmpty(page.tables)

\* one iteration of `for table in tables`, the same in both passes: the loop ends, the
\* table is skipped, the table is returned, or the next table is taken
TableStep(pass, scan, tables) ==
        /\ UNCHANGED <<pages, title_hit_pages, failure>>
        /\ IF table_index > Len(tables)
           THEN /\ pc' = scan
                /\ page_number' = page_number + 1
                /\ table_index' = 0
                /\ UNCHANGED <<result, visited>>
           ELSE LET table == tables[table_index]
                IN  /\ visited' = Append(visited, [pass |-> pass, page |-> page_number, table |-> table_index])
                    /\ IF SkipTable(table)
                       THEN /\ table_index' = NextTable(table_index, Len(tables))
                            /\ UNCHANGED <<pc, page_number, result>>
                       ELSE IF HeaderRaises(table)
                       THEN /\ pc' = "error"
                            /\ UNCHANGED <<page_number, table_index, result>>
                       ELSE IF HeaderMatches(table)
                       THEN /\ pc' = "found"
                            /\ result' = [table |-> table, page |-> page_number, index |-> table_index]
                            /\ UNCHANGED <<page_number, table_index>>
                       ELSE /\ table_index' = NextTable(table_index, Len(tables))
                            /\ UNCHANGED <<pc, page_number, result>>

\* Pass 1, lines 117-126: the next page of the first loop
Pass1Page ==
    /\ pc = "pass1"
    /\ page_number <= Len(pages)
    /\ UNCHANGED <<pages, result, failure>>
    /\ visited' = Append(visited, [pass |-> 1, page |-> page_number, table |-> 0])
    /\ LET page_text == OrEmpty(pages[page_number].text)
           tables == OrEmpty(pages[page_number].tables)
       IN  IF TitleRaises(page_text)
           THEN /\ pc' = "error"
                /\ UNCHANGED <<page_number, table_index, title_hit_pages>>
           ELSE IF ~_title_matches(page_text)
           THEN /\ page_number' = page_number + 1
                /\ UNCHANGED <<pc, table_index, title_hit_pages>>
           ELSE /\ title_hit_pages' = RecordHit(title_hit_pages, page_number, tables)
                /\ IF ~Truthy(tables)
                   THEN /\ page_number' = NoTables_Continue(page_number, Len(pages))
                        /\ UNCHANGED <<pc, table_index>>
                   ELSE /\ pc' = "pass1_tables"
                        /\ table_index' = 1
                        /\ UNCHANGED page_number

\* Pass 1, lines 128-135: the next table of a title-hit page
Pass1Table ==
    /\ pc = "pass1_tables"
    /\ TableStep(1, "pass1", OrEmpty(pages[page_number].tables).val)

\* a slip: the fallback scan left out
Pass1Exhausted_NoFallback ==
    /\ pc = "pass1"
    /\ page_number > Len(pages)
    /\ pc' = "failed"
    /\ failure' = Failure(title_hit_pages)
    /\ UNCHANGED <<pages, page_number, table_index, title_hit_pages, result, visited>>

\* the first loop ends without a return: the second loop starts at page 1
Pass1Exhausted ==
    /\ pc = "pass1"
    /\ page_number > Len(pages)
    /\ pc' = "pass2"
    /\ page_number' = 1
    /\ UNCHANGED <<pages, table_index, title_hit_pages, result, failure, visited>>

\* Pass 2, lines 138-139: the next page of the second loop
Pass2Page ==
    /\ pc = "pass2"
    /\ page_number <= Len(pages)
    /\ pc' = "pass2_tables"
    /\ table_index' = 1
    /\ visited' = Append(visited, [pass |-> 2, page |-> page_number, table |-> 0])
    /\ UNCHANGED <<pages, page_number, title_hit_pages, result, failure>>

\* Pass 2, lines 140-147: the next table of the page
Pass2Table ==
    /\ pc = "pass2_tables"
    /\ TableStep(2, "pass2", Pass2Tables(pages[page_number]).val)

\* lines 149-155: both loops ended without a return
Failed ==
    /\ pc = "pass2"
    /\ page_number > Len(pages)
    /\ pc' = "failed"
    /\ failure' = Failure(title_hit_pages)
    /\ UNCHANGED <<pages, page_number, table_index, title_hit_pages, result, visited>>

Next ==
    \/ Pass1Page
    \/ Pass1Table
    \/ Pass1Exhausted
    \/ Pass2Page
    \/ Pass2Table
    \/ Failed

\* the state on entry to extract_target_table, for the pages p
Start(p) ==
    /\ pages = p
    /\ pc = "pass1"
    /\ page_number = 1
    /\ table_index = 0
    /\ title_hit_pages = <<>>
    /\ result = NoResult
    /\ failure = "none"
    /\ visited = <<>>

(***************************************************************************)
(* Documents                                                               *)
(***************************************************************************)

\* pages of a document
MaxPages == 3

\* tables of a page
MaxTables == 2

\* tables of a document
MaxTablesTotal == 3

RECURSIVE Sum(_)
Sum(ns) == IF ns = <<>> THEN 0 ELSE Head(ns) + Sum(Tail(ns))

\* the sequences over S of length at most n
BoundedSeq(S, n) == UNION {[1..k -> S] : k \in 0..n}

\* page text carrying the title, as the docstring of line 6 and the comments of
\* lines 25-26 give it
TitleText == <<"8", ".", " ", "J", "A", "N", "U", "A", "R", "Y", " ", "2", "0", "2", "6", " ", "H", "o", "u", "s", "e", "h", "o", "l", "d", " ", "F", "o", "o", "d", " ", "B", "a", "s", "k", "e", "t", ":", " ", "P", "e", "r", " ", "a", "r", "e", "a", ",", " ", "c", "o", "m", "p", "a", "r", "e", "d">>

\* page text without the title
OtherText == <<"C", "o", "n", "t", "e", "n", "t", "s">>

\* a row of cells none of which is None
RowOf(cells) == Some([k \in 1..Len(cells) |-> Some(cells[k])])

\* a table of such rows
TableOf(rows) == Some([k \in 1..Len(rows) |-> RowOf(rows[k])])

DataRow == <<
    <<"M", "a", "i", "z", "e", " ", "m", "e", "a", "l">>,
    <<"3", "0", "k", "g">>,
    <<"R", " ", "3", "2", "9", ".", "2", "1">> >>

\* the table looked for: the five expected columns and one more, as pdfplumber gives
\* them (capitals, a line break inside a cell)
TargetTable == TableOf(<<
    << <<"F", "o", "o", "d", "s", " ", "t", "r", "a", "c", "k", "e", "d">>,
       <<"Q", "u", "a", "n", "t", "i", "t", "y", "\n", "t", "r", "a", "c", "k", "e", "d">>,
       <<"J", "o", "b", "u", "r", "g">>,
       <<"D", "u", "r", "b", "a", "n">>,
       <<"C", "a", "p", "e", " ", "T", "o", "w", "n">>,
       <<"A", "v", "e", "r", "a", "g", "e">> >>,
    DataRow >>)

\* another table of the document: four of the five expected columns
OtherTable == TableOf(<<
    << <<"F", "o", "o", "d", "s", " ", "t", "r", "a", "c", "k", "e", "d">>,
       <<"Q", "u", "a", "n", "t", "i", "t", "y", "\n", "t", "r", "a", "c", "k", "e", "d">>,
       <<"J", "o", "b", "u", "r", "g">>,
       <<"D", "u", "r", "b", "a", "n">>,
       <<"S", "p", "r", "i", "n", "g", "b", "o", "k">> >>,
    DataRow >>)

\* the documents whose pages take their text from texts and their tables from the
\* lists tableLists, at most maxPages pages and maxTotal tables in all
Documents(texts, tableLists, maxPages, maxTotal) ==
    LET Tables == {t \in BoundedSeq(tableLists, maxPages) :
                       Sum([k \in 1..Len(t) |-> Len(t[k].val)]) <= maxTotal}
    IN  UNION {{[k \in 1..Len(t) |-> [text |-> x[k], tables |-> t[k]]] : x \in [1..Len(t) -> texts]}
               : t \in Tables}

\* every page has text, with or without the title, and a list of tables, each the
\* table looked for or another one
Init ==
    \E p \in Documents({Some(TitleText), Some(OtherText)},
                        {Some(t) : t \in BoundedSeq({TargetTable, OtherTable}, MaxTables)},
                        MaxPages, MaxTablesTotal) :
        Start(p)

Spec == Init /\ [][Next]_vars

(***************************************************************************)
(* Documents with empty and missing parts                                  *)
(***************************************************************************)

\* pages of such a document
MaxPagesDegenerate == 2

\* the tables that give the header test nothing to test: None, a table with no rows,
\* a table whose row 0 is None, is empty, or holds only None and blank cells
DegenerateTables == {
    NULL,
    Some(<<>>),
    Some(<<NULL, RowOf(DataRow)>>),
    Some(<<Some(<<>>), RowOf(DataRow)>>),
    Some(<<Some(<<NULL, Some(<<" ", "\n">>), Some(<<>>)>>), RowOf(DataRow)>>) }

\* what extract_tables gives for a page: None, no table, one such table, or one such
\* table and then the table looked for
DegenerateTableLists ==
    {NULL, Some(<<>>)}
        \cup {Some(<<d>>) : d \in DegenerateTables}
        \cup {Some(<<d, TargetTable>>) : d \in DegenerateTables}

\* a page whose text is None or carries the title, with such tables; and a page whose
\* text is empty, with the table looked for
DegeneratePages ==
    [text : {NULL, Some(TitleText)}, tables : DegenerateTableLists]
        \cup {[text |-> Some(<<>>), tables |-> Some(<<TargetTable>>)]}

InitDegenerate == \E p \in BoundedSeq(DegeneratePages, MaxPagesDegenerate) : Start(p)

SpecDegenerate == InitDegenerate /\ [][Next]_vars

(***************************************************************************)
(* Header rows: the expected columns as a PDF may render them              *)
(***************************************************************************)

\* str.upper() on one character
UpperChar(c) ==
    IF \E k \in 1..Len(LowerCase) : LowerCase[k] = c
    THEN UpperCase[CHOOSE k \in 1..Len(LowerCase) : LowerCase[k] = c]
    ELSE c

\* s with every space replaced by the text gap
RECURSIVE Spread(_, _)
Spread(s, gap) ==
    IF s = <<>> THEN <<>>
    ELSE (IF Head(s) = " " THEN gap ELSE <<Head(s)>>) \o Spread(Tail(s), gap)

Reverse(s) == [k \in 1..Len(s) |-> s[Len(s) + 1 - k]]

\* the five expected column labels, in the order of lines 33-37
Labels == <<
    <<"f", "o", "o", "d", "s", " ", "t", "r", "a", "c", "k", "e", "d">>,
    <<"q", "u", "a", "n", "t", "i", "t", "y", " ", "t", "r", "a", "c", "k", "e", "d">>,
    <<"j", "o", "b", "u", "r", "g">>,
    <<"d", "u", "r", "b", "a", "n">>,
    <<"c", "a", "p", "e", " ", "t", "o", "w", "n">> >>

\* a label as a cell may hold it: as it is, in capitals, with a capital first letter
\* and a line break for the space, or padded and with runs of whitespace
Render(label, style) ==
    CASE style = 1 -> label
      [] style = 2 -> [k \in 1..Len(label) |-> UpperChar(label[k])]
      [] style = 3 -> <<UpperChar(Head(label))>> \o Spread(Tail(label), <<"\n">>)
      [] OTHER -> <<"\t", " ">> \o Spread(label, <<" ", "\n", " ">>) \o <<" ", "\n">>

\* the cells other than the expected columns that a header row may hold: a further
\* column, None, a blank cell, the first word alone of an expected label
ExtraCells == <<
    Some(<<"A", "v", "e", "r", "a", "g", "e">>),
    NULL,
    Some(<<" ", "\n">>),
    Some(<<"C", "a", "p", "e">>) >>

\* the header row that holds the labels numbered in kept, each in a style of its own
\* (shift turns the styles), with the further cell numbered extra in front (0: none;
\* one more than the extra cells: the first label again), back to front if rev
HeaderRow(kept, shift, extra, rev) ==
    LET In(k) == k \in kept
        order == SelectSeq(<<1, 2, 3, 4, 5>>, In)
        cells == [i \in 1..Len(order) |-> Some(Render(Labels[order[i]], ((order[i] + shift) % 4) + 1))]
        more == IF extra = 0 THEN <<>>
                ELSE IF extra <= Len(ExtraCells) THEN <<ExtraCells[extra]>>
                ELSE IF cells = <<>> THEN <<>>
                ELSE <<Some(Render(Labels[order[1]], 1))>>
        row == more \o cells
    IN  Some(IF rev THEN Reverse(row) ELSE row)

\* the sets of labels a header row is built from: all five, or one of them missing
KeptSets == {kept \in SUBSET (1..5) : Cardinality(kept) >= 4}

\* one page, with or without the title, holding one table with such a header row
InitHeader ==
    \E kept \in KeptSets, shift \in 0..3, extra \in 0..(Len(ExtraCells) + 1), rev \in BOOLEAN,
       text \in {Some(TitleText), Some(OtherText)} :
        Start(<<[text |-> text,
                 tables |-> Some(<<Some(<<HeaderRow(kept, shift, extra, rev), RowOf(DataRow)>>)>>)]>>)

SpecHeader == InitHeader /\ [][Next]_vars

(***************************************************************************)
(* Page texts: the title behind the prefixes a PDF may render              *)
(***************************************************************************)

\* the section number, as line 25 describes it, or none
SectionMarkers == {<<>>, <<"8", ".", " ">>, <<"1", "2", ".">>, <<"3", ".", "\n">>}

\* the month and year, as line 26 describes it, or none
MonthYears == {<<>>, <<"J", "A", "N", "U", "A", "R", "Y", " ", "2", "0", "2", "6", " ">>, <<"M", "a", "r", "c", "h", " ", " ", "2", "0", "2", "5", "\n">>}

\* the two tokens in either order
Prefixes == {a \o b : a \in SectionMarkers, b \in MonthYears} \cup {b \o a : a \in SectionMarkers, b \in MonthYears}

\* the title of lines 27-28, in the case and spacing a PDF may give it
TitlePhrases == {
    <<"H", "o", "u", "s", "e", "h", "o", "l", "d", " ", "F", "o", "o", "d", " ", "B", "a", "s", "k", "e", "t", ":", " ", "P", "e", "r", " ", "a", "r", "e", "a", ",", " ", "c", "o", "m", "p", "a", "r", "e", "d">>,
    <<"H", "O", "U", "S", "E", "H", "O", "L", "D", " ", "F", "O", "O", "D", " ", "B", "A", "S", "K", "E", "T", ":", " ", "P", "E", "R", " ", "A", "R", "E", "A", ",", " ", "C", "O", "M", "P", "A", "R", "E", "D">>,
    <<"H", "o", "u", "s", "e", "h", "o", "l", "d", "\n", "F", "o", "o", "d", " ", " ", "B", "a", "s", "k", "e", "t", " ", ":", "\n", "P", "e", "r", " ", "a", "r", "e", "a", " ", ",", "c", "o", "m", "p", "a", "r", "e", "d">> }

\* texts that are not the title: nothing, the title cut short, a word missing, the
\* colon and the comma missing
OtherPhrases == {
    <<>>,
    <<"H", "o", "u", "s", "e", "h", "o", "l", "d", " ", "F", "o", "o", "d", " ", "B", "a", "s", "k", "e", "t", ":", " ", "P", "e", "r", " ", "a", "r", "e", "a">>,
    <<"H", "o", "u", "s", "e", "h", "o", "l", "d", " ", "B", "a", "s", "k", "e", "t", ":", " ", "P", "e", "r", " ", "a", "r", "e", "a", ",", " ", "c", "o", "m", "p", "a", "r", "e", "d">>,
    <<"H", "o", "u", "s", "e", "h", "o", "l", "d", " ", "F", "o", "o", "d", " ", "B", "a", "s", "k", "e", "t", " ", "P", "e", "r", " ", "a", "r", "e", "a", " ", "c", "o", "m", "p", "a", "r", "e", "d">> }

\* what stands on the page before the prefix: nothing, or a line of other text
Leads == {<<>>, <<"C", "o", "n", "t", "e", "n", "t", "s", "\n">>}

\* what extract_text may give: None, or such a text
PageTexts ==
    {NULL} \cup {Some(lead \o prefix \o phrase) :
                      lead \in Leads, prefix \in Prefixes, phrase \in TitlePhrases \cup OtherPhrases}

\* one page with such a text and a table that is not the one looked for
InitTitle ==
    \E text \in PageTexts : Start(<<[text |-> text, tables |-> Some(<<OtherTable>>)]>>)

SpecTitle == InitTitle /\ [][Next]_vars

(***************************************************************************)
(* What the claims speak of, said without the code's own operators         *)
(***************************************************************************)

\* the words of a text: its maximal runs of non-whitespace, in lower case
RECURSIVE Words(_)
Words(s) ==
    IF s = <<>> THEN <<>>
    ELSE IF Head(s) \in Whitespace THEN Words(Tail(s))
    ELSE LET stops == {k \in 1..Len(s) : s[k] \in Whitespace}
             n == IF stops = {} THEN Len(s) + 1
                  ELSE CHOOSE k \in stops : \A m \in stops : k <= m
         IN  <<Lower(SubSeq(s, 1, n - 1))>> \o Words(SubSeq(s, n, Len(s)))

\* the five required labels, word by word
RequiredLabels == {
    << <<"f", "o", "o", "d", "s">>, <<"t", "r", "a", "c", "k", "e", "d">> >>,
    << <<"q", "u", "a", "n", "t", "i", "t", "y">>, <<"t", "r", "a", "c", "k", "e", "d">> >>,
    << <<"j", "o", "b", "u", "r", "g">> >>,
    << <<"d", "u", "r", "b", "a", "n">> >>,
    << <<"c", "a", "p", "e">>, <<"t", "o", "w", "n">> >> }

\* the header row carries every required label, whatever the case and the whitespace
RowCovers(row) ==
    /\ ~row.none
    /\ \A label \in RequiredLabels :
           \E k \in 1..Len(row.val) : ~row.val[k].none /\ Words(row.val[k].val) = label

\* the table satisfies the header signature
Satisfies(table) == ~table.none /\ table.val # <<>> /\ RowCovers(table.val[1])

\* the places <<page, index>> of the document's tables
Places == UNION {{<<n, j>> : j \in 1..Len(pages[n].tables.val)} : n \in 1..Len(pages)}

TableAt(place) == pages[place[1]].tables.val[place[2]]

\* document order: page order, then table order
Before(a, b) == a[1] < b[1] \/ (a[1] = b[1] /\ a[2] < b[2])

\* the first place of a non-empty set of places
First(S) == CHOOSE a \in S : \A b \in S : a = b \/ Before(a, b)

\* the pages whose text carries the title
TitlePages == {n \in 1..Len(pages) : pages[n].text = Some(TitleText)}

\* the places of the tables that satisfy the header signature
Matching == {a \in Places : Satisfies(TableAt(a))}

\* those of them on pages whose text carries the title
TitleMatching == {a \in Matching : a[1] \in TitlePages}

\* the run has ended
Ended == pc \in {"found", "failed", "error"}

\* the result is the table at the place a
Returned(a) ==
    pc = "found" /\ result = [table |-> TableAt(a), page |-> a[1], index |-> a[2]]

\* the last visit of the history was made in the pass given
LastPass(pass) == visited # <<>> /\ visited[Len(visited)].pass = pass

(***************************************************************************)
(* Claims                                                                  *)
(***************************************************************************)

\* C1: whenever the run ends in Found, row 0 of the returned table, its cells
\* normalized and the empty ones dropped, covers the five required labels; the table
\* is one of the document's, and no table whose header does not match is returned,
\* in Pass 1 or in Pass 2.
C1_FoundHeaderCovers ==
    pc = "found" =>
        /\ <<result.page, result.index>> \in Places
        /\ result.table = TableAt(<<result.page, result.index>>)
        /\ Satisfies(result.table)

\* C1 witness: Found in Pass 2, after a table with four of the five labels on a page
\* with the title was passed over in Pass 1
C1_Witness ==
    /\ pc = "found"
    /\ LastPass(2)
    /\ \E a \in Places : a[1] \in TitlePages /\ ~Satisfies(TableAt(a))

\* C2: if a page whose text matches the title carries a table that satisfies the
\* signature, the run ends in Found with the first such table of the earliest such
\* page and that page's number, whatever precedes it.
C2_Pass1FirstTitleMatch ==
    (Ended /\ TitleMatching # {}) => Returned(First(TitleMatching))

\* C2 witness: the table returned is the second of its page, an earlier page with the
\* title has no matching table, and a page without the title has a matching one
C2_Witness ==
    /\ pc = "found"
    /\ result.index = 2
    /\ \E n \in TitlePages : n < result.page
    /\ \E a \in Matching : a[1] \notin TitlePages /\ Before(a, <<result.page, result.index>>)

\* C3: if no page with the title carries a matching table and some table of the
\* document matches, the run ends in Found with the first matching table in document
\* order; the run fails only when no table of the document matches.
C3_Pass2FirstMatch ==
    /\ (Ended /\ TitleMatching = {} /\ Matching # {}) => Returned(First(Matching))
    /\ pc = "failed" => Matching = {}

\* C3 witness: Found in Pass 2 on a page without the title, though pages with the
\* title exist
C3_Witness ==
    /\ pc = "found"
    /\ TitleMatching = {}
    /\ TitlePages # {}
    /\ result.page > 1

\* C4: when both passes end without a match, the failure is
\* TitleFoundNoMatchingTable iff some page's text matched the title, and
\* NoTitleNoTable otherwise; no other run has a failure kind.
C4_FailureKind ==
    /\ pc = "failed" =>
           /\ failure \in {"TitleFoundNoMatchingTable", "NoTitleNoTable"}
           /\ failure = "TitleFoundNoMatchingTable" <=> TitlePages # {}
           /\ failure = "NoTitleNoTable" <=> TitlePages = {}
    /\ pc # "failed" => failure = "none"

\* C4 witness: TitleFoundNoMatchingTable on a document that also has pages without
\* the title
C4_Witness ==
    /\ pc = "failed"
    /\ failure = "TitleFoundNoMatchingTable"
    /\ \E n \in 1..Len(pages) : n \notin TitlePages

\* C5: a TitleFoundNoMatchingTable failure carries the numbers of exactly the pages
\* whose text matches the title, ascending, each once.
C5_HitPagesExact ==
    failure = "TitleFoundNoMatchingTable" =>
        /\ {title_hit_pages[k] : k \in 1..Len(title_hit_pages)} = TitlePages
        /\ \A k \in 1..(Len(title_hit_pages) - 1) : title_hit_pages[k] < title_hit_pages[k + 1]

\* C5 witness: the failure lists a page with the title and no tables and a page with
\* the title whose tables all fail, and leaves out a page without the title
C5_Witness ==
    /\ failure = "TitleFoundNoMatchingTable"
    /\ \E n \in TitlePages : pages[n].tables.val = <<>>
    /\ \E n \in TitlePages : pages[n].tables.val # <<>>
    /\ \E n \in 1..Len(pages) : n \notin TitlePages /\ pages[n].tables.val # <<>>
    /\ Len(title_hit_pages) = 2

\* the visits of each pass are in document order
VisitsInOrder ==
    \A k \in 1..(Len(visited) - 1) :
        \/ visited[k].pass < visited[k + 1].pass
        \/ /\ visited[k].pass = visited[k + 1].pass
           /\ Before(<<visited[k].page, visited[k].table>>,
                     <<visited[k + 1].page, visited[k + 1].table>>)

\* C6 as stated: when more than one table satisfies the signature, the table returned
\* is the first of them in document order.
C6_FirstInDocumentOrder ==
    (pc = "found" /\ Cardinality(Matching) > 1) => Returned(First(Matching))

\* C6 amended: pages and tables are visited in document order in each pass, and the
\* table returned is the first matching table in document order among the tables of
\* the pages with the title when one of those matches, and among all tables otherwise.
C6_FirstAmongPreferred ==
    /\ VisitsInOrder
    /\ (pc = "found" /\ Cardinality(Matching) > 1) =>
           Returned(First(IF TitleMatching # {} THEN TitleMatching ELSE Matching))

\* C6 witness: two matching tables, the earlier on a page without the title, the later
\* one returned
C6_Witness ==
    /\ pc = "found"
    /\ Cardinality(Matching) > 1
    /\ Before(First(Matching), <<result.page, result.index>>)

\* C7: on the empty sequence, on pages with empty or None text, on pages with no
\* tables, on tables with no rows and on tables whose row 0 is empty, None or made of
\* None and blank cells, the run raises nothing but its two failures: it ends in
\* Found, TitleFoundNoMatchingTable or NoTitleNoTable; such a page or table is passed
\* over and the next candidate taken; the empty sequence gives NoTitleNoTable.
C7_NoOtherError ==
    /\ pc # "error"
    /\ pc = "found" => failure = "none" /\ Satisfies(result.table)
    /\ pc = "failed" => failure \in {"TitleFoundNoMatchingTable", "NoTitleNoTable"}
    /\ Ended => (pc = "found" <=> Matching # {})
    /\ (Ended /\ pages = <<>>) => failure = "NoTitleNoTable"

\* C7 witness: Found on the second page, behind a table whose row 0 is None, after a
\* first page whose text is None and whose tables are None
C7_Witness ==
    /\ pc = "found"
    /\ result.page = 2
    /\ result.index = 2
    /\ Truthy(TableAt(<<2, 1>>))
    /\ TableAt(<<2, 1>>).val[1].none
    /\ pages[1].text.none
    /\ pages[1].tables.none

\* the four states of the locator
Phase(p) ==
    CASE p \in {"pass1", "pass1_tables"} -> "Scanning-Pass1"
      [] p \in {"pass2", "pass2_tables"} -> "Scanning-Pass2"
      [] p = "found" -> "Found"
      [] p = "failed" -> "Failed"
      [] OTHER -> "Error"

\* every page was visited in the pass given
AllVisited(pass) ==
    \A n \in 1..Len(pages) :
        \E k \in 1..Len(visited) : visited[k] = [pass |-> pass, page |-> n, table |-> 0]

\* a step of the locator is one of the transitions of the state machine
Transition ==
    /\ <<Phase(pc), Phase(pc')>> \in
           { <<"Scanning-Pass1", "Scanning-Pass1">>, <<"Scanning-Pass1", "Found">>,
             <<"Scanning-Pass1", "Scanning-Pass2">>, <<"Scanning-Pass2", "Scanning-Pass2">>,
             <<"Scanning-Pass2", "Found">>, <<"Scanning-Pass2", "Failed">> }
    /\ (Phase(pc) = "Scanning-Pass1" /\ Phase(pc') = "Scanning-Pass2") =>
           AllVisited(1) /\ result' = NoResult
    /\ Phase(pc') = "Failed" => AllVisited(2) /\ result' = NoResult
    /\ Phase(pc') = "Found" => result' # NoResult

\* C8: every step is Pass1 -> Found, Pass1 -> Pass2, Pass2 -> Found, Pass2 -> Failed
\* or stays in its pass; Pass 2 is entered only after Pass 1 visited every page
\* without a match, Pass 1 is never re-entered, Failed is reached only after Pass 2
\* visited every page, and no step follows Found or Failed.
C8_Transitions == [][Transition]_vars

\* C8 witness: a run of three pages that went through both passes and failed
C8_Witness ==
    /\ pc = "failed"
    /\ Len(pages) = 3
    /\ AllVisited(1)
    /\ AllVisited(2)

\* C9: the header test, in Pass 1 and in Pass 2, succeeds iff the non-empty normalized
\* cells of row 0 (lower case, runs of whitespace as one space, trimmed, None as empty)
\* cover the five required labels: a further column, the order of the columns, a cell
\* twice, None and blank cells, and case and whitespace inside the cells change
\* nothing, and a missing label always makes it fail.
C9_HeaderTest ==
    Ended =>
        /\ pc = "found" <=> Satisfies(TableAt(<<1, 1>>))
        /\ \A kept \in KeptSets, shift \in 0..3, extra \in 0..(Len(ExtraCells) + 1), rev \in BOOLEAN :
               TableAt(<<1, 1>>).val[1] = HeaderRow(kept, shift, extra, rev) =>
                   (pc = "found" <=> kept = 1..5)

\* C9 witness: the test succeeds in Pass 2 on a header row back to front, with a None
\* cell, whose cells differ in case and whitespace from the labels
C9_Witness ==
    /\ pc = "found"
    /\ LastPass(2)
    /\ TableAt(<<1, 1>>).val[1] = HeaderRow(1..5, 1, 2, TRUE)

\* the title test was made on page 1
TitleTested == visited # <<>>

====
